---- MODULE Spec2Model ----
(***************************************************************************)
(* State-machine model of the SecureChat relay.  The repository holds      *)
(* three revisions of the relay, each a program of its own:                *)
(*   "server"     src/server.js          (E2EE server, Map-based stores)   *)
(*   "minimal"    src/unnamed/part_000   (minimal server, object stores)   *)
(*   "serverless" src/unnamed/part_001   (per-route handlers on `global`)  *)
(* The variable `variant` says which revision is deployed; it is chosen in *)
(* Init and never changes.  Strings that the code transforms (room ids)    *)
(* are sequences of one-character strings; other strings are TLA+ strings  *)
(* with "" standing for a missing (falsy) field.  An optional number is    *)
(* <<>> (undefined) or <<n>>.  A request handler runs to completion in one *)
(* turn of the event loop, at one reading of the clock.                    *)
(* Left out: the rate limiter of server.js (a request it refuses reaches   *)
(* no handler), the 500 answers of the catch blocks, logging and the       *)
(* request statistics.                                                     *)
(***************************************************************************)
EXTENDS Integers, Sequences, FiniteSets, TLC

VARIABLES
    variant,          \* which revision is deployed
    clock,            \* Date.now()
    ticks,            \* how many times the clock has advanced
    rooms,            \* server.js: roomId -> [hostId, timestamp, e2eeEnabled]
    messages,         \* server.js: roomId -> sequence of broadcast messages
    roomKeys,         \* server.js: roomId -> [encryptedKey, timestamp]
    receipts,         \* server.js: roomId -> sequence of receipts
    userPublicKeys,   \* server.js: roomId -> (userId -> [publicKey, timestamp])
    roomUsers,        \* server.js: roomId -> set of userIds
    e2eeMessages,     \* server.js: roomId -> sequence of directed messages
    mRooms,           \* part_000: rooms[roomId] = [hostId, members, createdAt]
    mMessages,        \* part_000: messages[roomId] = sequence of messages
    pubkeys,          \* part_000: pubkeys[roomId][userId] = key
    roomkeys,         \* part_000: roomkeys[roomId] = key
    globalObj,        \* part_001: the properties the handlers set on `global`
    pending,          \* room-key requests received and not yet handled, by client
    replies,          \* the status each of those clients got
    keyLog,           \* history: every key write that succeeded
    resp              \* the response the last step sent (none: a timer or clock step)

vars == <<variant, clock, ticks, rooms, messages, roomKeys, receipts,
          userPublicKeys, roomUsers, e2eeMessages, mRooms, mMessages, pubkeys,
          roomkeys, globalObj, pending, replies, keyLog, resp>>

serverVars == <<rooms, messages, roomKeys, receipts, userPublicKeys,
                roomUsers, e2eeMessages>>

minimalVars == <<mRooms, mMessages, pubkeys, roomkeys>>

(* what a handler of one revision leaves alone: the clock and the stores   *)
(* of the other revisions (Base), and the queue of room-key requests and   *)
(* the history of key writes (Frame)                                       *)
raceVars == <<pending, replies>>

serverBase == <<variant, clock, ticks, minimalVars, globalObj>>
serverFrame == <<serverBase, raceVars, keyLog>>
minimalBase == <<variant, clock, ticks, serverVars, globalObj>>
minimalFrame == <<minimalBase, raceVars, keyLog>>
serverlessBase == <<variant, clock, ticks, serverVars, minimalVars>>
serverlessFrame == <<serverlessBase, raceVars, keyLog>>

-----------------------------------------------------------------------------
(* Bounds of the model                                                     *)

MaxTicks == 2
MaxMsgs == 2
MaxReceipts == 2

(* Program constants                                                       *)

StartTime == 1000
DayMs == 24 * 60 * 60 * 1000
WeekMs == 7 * 24 * 60 * 60 * 1000

(* Inputs                                                                  *)

Users == {"u1", "u2"}
KeyInputs == {"", "K1", "K2"}
RandomSuffixes == {"x7"}
RecipientMaps == { <<>>,
                   << <<"u2", "blob1">> >>,
                   << <<"u1", "blob1">>, <<"u2", "blob2">> >> }
ReceiptTypes == {"", "read"}
None == <<>>

-----------------------------------------------------------------------------
(* JavaScript helpers                                                      *)

Falsy(s) == s = ""
FalsyNum(o) == o = None \/ o[1] = 0
FalsySeq(s) == s = <<>>

Has(m, k) == k \in DOMAIN m
MapSet(m, k, v) == [x \in (DOMAIN m) \cup {k} |-> IF x = k THEN v ELSE m[x]]
MapGet(m, k, dflt) == IF k \in DOMAIN m THEN m[k] ELSE dflt
InitIfAbsent(m, k, v) == IF k \in DOMAIN m THEN m ELSE MapSet(m, k, v)

ToUpperCase(s) ==
    [i \in 1..Len(s) |-> CASE s[i] = "a" -> "A"
                           [] s[i] = "b" -> "B"
                           [] OTHER -> s[i]]

RECURSIVE TrimStart(_)
TrimStart(s) == IF s # <<>> /\ Head(s) = " " THEN TrimStart(Tail(s)) ELSE s

RECURSIVE TrimEnd(_)
TrimEnd(s) == IF s # <<>> /\ s[Len(s)] = " "
              THEN TrimEnd(SubSeq(s, 1, Len(s) - 1)) ELSE s

Trim(s) == TrimEnd(TrimStart(s))

normalizeRoomId(roomId) == IF FalsySeq(roomId) THEN <<>> ELSE Trim(ToUpperCase(roomId))

RECURSIVE InsertByTimestamp(_, _)
InsertByTimestamp(sorted, m) ==
    IF sorted = <<>> THEN <<m>>
    ELSE IF sorted[Len(sorted)].timestamp <= m.timestamp
         THEN Append(sorted, m)
         ELSE Append(InsertByTimestamp(SubSeq(sorted, 1, Len(sorted) - 1), m),
                     sorted[Len(sorted)])

Unsorted(s) == s

RECURSIVE SortByTimestamp(_)
SortByTimestamp(s) ==
    IF s = <<>> THEN <<>>
    ELSE InsertByTimestamp(SortByTimestamp(SubSeq(s, 1, Len(s) - 1)), s[Len(s)])

NeverExpired(msg, now) == TRUE

NotExpired(msg, now) == msg.expirationTime = 0 \/ msg.expirationTime > now

SweepNothing(store, now) == store

SweepAll(store, now) ==
    [r \in DOMAIN store |-> SelectSeq(store[r], LAMBDA msg : NotExpired(msg, now))]

generateMessageId(now, rnd) == <<"msg", now, rnd>>

-----------------------------------------------------------------------------
(* Responses: the operation, the status, the room id the handler used,    *)
(* the request's user, key and recipient map (req), the records the        *)
(* handler stored or returned (msgs), what it counted, and for a           *)
(* create-room call the flag the room had before it (prev), if it existed  *)

NoResp == [op |-> "none", status |-> 0, room |-> <<>>, user |-> "",
           key |-> "", req |-> <<>>, msgs |-> <<>>, members |-> {}, count |-> 0,
           cleaned |-> 0, flag |-> FALSE, prev |-> <<>>]

Reply(op, status, room) == [NoResp EXCEPT !.op = op, !.status = status, !.room = room]

-----------------------------------------------------------------------------
Init ==
    /\ variant \in {"server", "minimal", "serverless"}
    /\ clock = StartTime
    /\ ticks = 0
    /\ rooms = <<>>
    /\ messages = <<>>
    /\ roomKeys = <<>>
    /\ receipts = <<>>
    /\ userPublicKeys = <<>>
    /\ roomUsers = <<>>
    /\ e2eeMessages = <<>>
    /\ mRooms = <<>>
    /\ mMessages = <<>>
    /\ pubkeys = <<>>
    /\ roomkeys = <<>>
    /\ globalObj = <<>>
    /\ pending = <<>>
    /\ replies = <<>>
    /\ keyLog = {}
    /\ resp = NoResp

Tick(d) ==
    /\ ticks < MaxTicks
    /\ clock' = clock + d
    /\ ticks' = ticks + 1
    /\ resp' = NoResp
    /\ UNCHANGED <<variant, serverVars, minimalVars, globalObj, raceVars, keyLog>>

(* server.js: POST /create-room *)
CreateRoom(roomId, hostId, e2eeEnabled) ==
    /\ variant = "server"
    /\ IF FalsySeq(roomId) \/ Falsy(hostId)
       THEN /\ resp' = Reply("createRoom", 400, <<>>)
            /\ UNCHANGED serverVars
       ELSE LET n == normalizeRoomId(roomId) IN
            /\ rooms' = MapSet(rooms, n, [hostId |-> hostId, timestamp |-> clock,
                                          e2eeEnabled |-> e2eeEnabled])
            /\ messages' = InitIfAbsent(messages, n, <<>>)
            /\ e2eeMessages' = InitIfAbsent(e2eeMessages, n, <<>>)
            /\ receipts' = InitIfAbsent(receipts, n, <<>>)
            /\ userPublicKeys' = InitIfAbsent(userPublicKeys, n, <<>>)
            /\ roomUsers' = MapSet(roomUsers, n, MapGet(roomUsers, n, {}) \cup {hostId})
            /\ resp' = [Reply("createRoom", 200, n) EXCEPT
                            !.flag = e2eeEnabled,
                            !.prev = IF Has(rooms, n) THEN <<rooms[n].e2eeEnabled>>
                                     ELSE None]
            /\ UNCHANGED roomKeys
    /\ UNCHANGED serverFrame

(* server.js: POST /join-room *)
JoinRoom(roomId, userId) ==
    /\ variant = "server"
    /\ IF FalsySeq(roomId) \/ Falsy(userId)
       THEN /\ resp' = Reply("joinRoom", 400, <<>>)
            /\ UNCHANGED serverVars
       ELSE LET n == normalizeRoomId(roomId) IN
            IF ~Has(rooms, n)
            THEN /\ resp' = Reply("joinRoom", 404, n)
                 /\ UNCHANGED serverVars
            ELSE /\ roomUsers' = MapSet(roomUsers, n, MapGet(roomUsers, n, {}) \cup {userId})
                 /\ resp' = [Reply("joinRoom", 200, n) EXCEPT !.user = userId]
                 /\ UNCHANGED <<rooms, messages, roomKeys, receipts, userPublicKeys,
                                e2eeMessages>>
    /\ UNCHANGED serverFrame

GetRoomFlagOff(roomId) ==
    /\ variant = "server"
    /\ LET n == normalizeRoomId(roomId) IN
       IF FalsySeq(n) THEN resp' = Reply("getRoom", 400, n)
       ELSE IF ~Has(rooms, n) THEN resp' = Reply("getRoom", 404, n)
       ELSE resp' = [Reply("getRoom", 200, n) EXCEPT
                        !.count = Cardinality(MapGet(roomUsers, n, {}))]
    /\ UNCHANGED <<serverFrame, serverVars>>

(* server.js: GET /room/:roomId *)
GetRoom(roomId) ==
    /\ variant = "server"
    /\ LET n == normalizeRoomId(roomId) IN
       IF FalsySeq(n) THEN resp' = Reply("getRoom", 400, n)
       ELSE IF ~Has(rooms, n) THEN resp' = Reply("getRoom", 404, n)
       ELSE resp' = [Reply("getRoom", 200, n) EXCEPT
                        !.flag = rooms[n].e2eeEnabled,
                        !.count = Cardinality(MapGet(roomUsers, n, {}))]
    /\ UNCHANGED <<serverFrame, serverVars>>

(* server.js: POST /users/:roomId/:userId/publickey *)
KeyWrite(op, room, user, key) == [op |-> op, room |-> room, user |-> user, key |-> key]

StoreIfAbsent(keysOfRoom, userId, entry) ==
    IF Has(keysOfRoom, userId) THEN keysOfRoom ELSE MapSet(keysOfRoom, userId, entry)

(* server.js: userPublicKeys.get(normalizedRoomId)[userId] = {...} *)
StorePublicKey(keysOfRoom, userId, entry) == MapSet(keysOfRoom, userId, entry)

PutPublicKey(roomId, userId, publicKey) ==
    /\ variant = "server"
    /\ IF FalsySeq(roomId) \/ Falsy(userId) \/ Falsy(publicKey)
       THEN /\ resp' = Reply("putPublicKey", 400, <<>>)
            /\ UNCHANGED <<serverVars, keyLog>>
       ELSE LET n == normalizeRoomId(roomId) IN
            IF ~Has(rooms, n)
            THEN /\ resp' = Reply("putPublicKey", 404, n)
                 /\ UNCHANGED <<serverVars, keyLog>>
            ELSE /\ userPublicKeys' =
                        MapSet(userPublicKeys, n,
                               StorePublicKey(MapGet(userPublicKeys, n, <<>>), userId,
                                      [publicKey |-> publicKey, timestamp |-> clock]))
                 /\ keyLog' = keyLog \cup {KeyWrite("putPublicKey", n, userId, publicKey)}
                 /\ roomUsers' = MapSet(roomUsers, n, MapGet(roomUsers, n, {}) \cup {userId})
                 /\ resp' = [Reply("putPublicKey", 200, n) EXCEPT
                                !.user = userId, !.key = publicKey]
                 /\ UNCHANGED <<rooms, messages, roomKeys, receipts, e2eeMessages>>
    /\ UNCHANGED <<serverBase, raceVars>>

(* server.js: GET /users/:roomId/:userId/publickey *)
GetPublicKey(roomId, userId) ==
    /\ variant = "server"
    /\ LET n == normalizeRoomId(roomId)
           keysOfRoom == MapGet(userPublicKeys, n, <<>>)
       IN  IF FalsySeq(n) \/ Falsy(userId)
           THEN resp' = Reply("getPublicKey", 400, n)
           ELSE IF ~Has(keysOfRoom, userId)
           THEN resp' = [Reply("getPublicKey", 404, n) EXCEPT !.user = userId]
           ELSE resp' = [Reply("getPublicKey", 200, n) EXCEPT
                            !.user = userId, !.key = keysOfRoom[userId].publicKey]
    /\ UNCHANGED <<serverFrame, serverVars>>

RoomUserListKeyed(n) ==
    LET roomKeyMap == MapGet(userPublicKeys, n, <<>>)
    IN  { <<u, roomKeyMap[u].publicKey>> : u \in DOMAIN roomKeyMap }

(* server.js: GET /rooms/:roomId/users; the body is the set of              *)
(* (userId, publicKey) pairs of the users array                             *)
RoomUserList(n) ==
    LET roomUserSet == MapGet(roomUsers, n, {})
        roomKeyMap == MapGet(userPublicKeys, n, <<>>)
    IN  { <<u, IF Has(roomKeyMap, u) THEN roomKeyMap[u].publicKey ELSE "">> :
            u \in roomUserSet }

GetRoomUsers(roomId) ==
    /\ variant = "server"
    /\ LET n == normalizeRoomId(roomId) IN
       IF FalsySeq(n) THEN resp' = Reply("getRoomUsers", 400, n)
       ELSE IF ~Has(rooms, n) THEN resp' = Reply("getRoomUsers", 404, n)
       ELSE resp' = [Reply("getRoomUsers", 200, n) EXCEPT
                        !.members = RoomUserList(n),
                        !.count = Cardinality(RoomUserList(n))]
    /\ UNCHANGED <<serverFrame, serverVars>>

FanOutToFirst(messageId, senderId, encryptedMessages, timestamp, finalExpirationTime) ==
    [i \in 1..Len(encryptedMessages) |->
        [id |-> <<messageId, encryptedMessages[1][1]>>,
         messageId |-> messageId,
         senderId |-> senderId,
         recipientId |-> encryptedMessages[1][1],
         encryptedData |-> encryptedMessages[i][2],
         timestamp |-> timestamp,
         expirationTime |-> finalExpirationTime]]

(* server.js: the records POST /send-e2ee pushes, one per entry of the map *)
FanOut(messageId, senderId, encryptedMessages, timestamp, finalExpirationTime) ==
    [i \in 1..Len(encryptedMessages) |->
        [id |-> <<messageId, encryptedMessages[i][1]>>,
         messageId |-> messageId,
         senderId |-> senderId,
         recipientId |-> encryptedMessages[i][1],
         encryptedData |-> encryptedMessages[i][2],
         timestamp |-> timestamp,
         expirationTime |-> finalExpirationTime]]

(* server.js: POST /send-e2ee; encryptedMessages is None or <<map>> *)
SendE2EE(roomId, senderId, encryptedMessages, expirationTime, rnd) ==
    /\ variant = "server"
    /\ IF FalsySeq(roomId) \/ Falsy(senderId) \/ encryptedMessages = None
       THEN /\ resp' = Reply("sendE2EE", 400, <<>>)
            /\ UNCHANGED serverVars
       ELSE LET n == normalizeRoomId(roomId) IN
            IF ~Has(rooms, n)
            THEN /\ resp' = Reply("sendE2EE", 404, n)
                 /\ UNCHANGED serverVars
            ELSE LET messageId == generateMessageId(clock, rnd)
                     timestamp == clock
                     finalExpirationTime ==
                         IF FalsyNum(expirationTime) THEN timestamp + DayMs
                         ELSE expirationTime[1]
                     roomMessageList == MapGet(e2eeMessages, n, <<>>)
                     pushed == FanOut(messageId, senderId, encryptedMessages[1],
                                      timestamp, finalExpirationTime)
                 IN  /\ Len(MapGet(messages, n, <<>>)) + Len(roomMessageList) + Len(pushed) <= MaxMsgs
                     /\ e2eeMessages' = MapSet(e2eeMessages, n, roomMessageList \o pushed)
                     /\ resp' = [Reply("sendE2EE", 200, n) EXCEPT
                                    !.user = senderId,
                                    !.req = encryptedMessages[1],
                                    !.msgs = pushed,
                                    !.count = Len(pushed)]
                     /\ UNCHANGED <<rooms, messages, roomKeys, receipts, userPublicKeys,
                                    roomUsers>>
    /\ UNCHANGED serverFrame

RECURSIVE TotalLen(_, _)
TotalLen(store, keys) ==
    IF keys = {} THEN 0
    ELSE LET k == CHOOSE x \in keys : TRUE
         IN  Len(store[k]) + TotalLen(store, keys \ {k})

(* server.js: cleanupExpiredMessages, as the pair of stores it leaves, and *)
(* the number it logs                                                      *)
cleanupExpiredMessages ==
    /\ messages' = SweepAll(messages, clock)
    /\ e2eeMessages' = SweepAll(e2eeMessages, clock)

cleaned ==
    (TotalLen(messages, DOMAIN messages)
        - TotalLen(SweepAll(messages, clock), DOMAIN messages))
    + (TotalLen(e2eeMessages, DOMAIN e2eeMessages)
        - TotalLen(SweepAll(e2eeMessages, clock), DOMAIN e2eeMessages))

(* server.js: GET /messages-e2ee/:roomId/:userId *)
GetE2EEMessages(roomId, userId) ==
    /\ variant = "server"
    /\ LET n == normalizeRoomId(roomId) IN
       IF FalsySeq(n) \/ Falsy(userId)
       THEN /\ resp' = Reply("getE2EEMessages", 400, n)
            /\ UNCHANGED serverVars
       ELSE IF ~Has(rooms, n)
       THEN /\ resp' = Reply("getE2EEMessages", 404, n)
            /\ UNCHANGED serverVars
       ELSE /\ cleanupExpiredMessages
            /\ LET roomMessageList == MapGet(e2eeMessages', n, <<>>)
                   now == clock
                   userMessages ==
                       SortByTimestamp(SelectSeq(roomMessageList,
                           LAMBDA msg : msg.recipientId = userId /\ NotExpired(msg, now)))
               IN  resp' = [Reply("getE2EEMessages", 200, n) EXCEPT
                               !.user = userId, !.msgs = userMessages,
                               !.cleaned = cleaned]
            /\ UNCHANGED <<rooms, roomKeys, receipts, userPublicKeys, roomUsers>>
    /\ UNCHANGED serverFrame

(* server.js: POST /send *)
Send(roomId, message, senderId, timestamp, expirationTime, rnd) ==
    /\ variant = "server"
    /\ IF FalsySeq(roomId) \/ Falsy(message) \/ Falsy(senderId)
       THEN /\ resp' = Reply("send", 400, <<>>)
            /\ UNCHANGED serverVars
       ELSE LET n == normalizeRoomId(roomId) IN
            IF ~Has(rooms, n)
            THEN /\ resp' = Reply("send", 404, n)
                 /\ UNCHANGED serverVars
            ELSE LET messageId == generateMessageId(clock, rnd)
                     messageTimestamp == IF FalsyNum(timestamp) THEN clock ELSE timestamp[1]
                     stored == [id |-> messageId,
                                roomId |-> n,
                                message |-> message,
                                senderId |-> senderId,
                                timestamp |-> messageTimestamp,
                                expirationTime |->
                                    IF FalsyNum(expirationTime)
                                    THEN messageTimestamp + DayMs
                                    ELSE expirationTime[1]]
                     roomMessages == MapGet(messages, n, <<>>)
                 IN  /\ Len(roomMessages) + Len(MapGet(e2eeMessages, n, <<>>)) < MaxMsgs
                     /\ messages' = MapSet(messages, n, Append(roomMessages, stored))
                     /\ resp' = [Reply("send", 200, n) EXCEPT
                                    !.user = senderId, !.msgs = <<stored>>, !.count = 1]
                     /\ UNCHANGED <<rooms, roomKeys, receipts, userPublicKeys, roomUsers,
                                    e2eeMessages>>
    /\ UNCHANGED serverFrame

(* server.js: GET /messages/:roomId *)
GetMessages(roomId) ==
    /\ variant = "server"
    /\ LET n == normalizeRoomId(roomId) IN
       IF FalsySeq(n)
       THEN /\ resp' = Reply("getMessages", 400, n)
            /\ UNCHANGED serverVars
       ELSE /\ cleanupExpiredMessages
            /\ LET roomMessages == MapGet(messages', n, <<>>)
                   now == clock
                   validMessages ==
                       SortByTimestamp(SelectSeq(roomMessages,
                           LAMBDA msg : NotExpired(msg, now)))
               IN  resp' = [Reply("getMessages", 200, n) EXCEPT
                               !.msgs = validMessages, !.cleaned = cleaned]
            /\ UNCHANGED <<rooms, roomKeys, receipts, userPublicKeys, roomUsers>>
    /\ UNCHANGED serverFrame

(* server.js: POST /rooms/:roomId/key *)
PutRoomKeyHandler(roomId, encryptedKey) ==
    LET n == normalizeRoomId(roomId) IN
    IF FalsySeq(n) \/ Falsy(encryptedKey)
    THEN /\ resp' = Reply("putRoomKey", 400, n)
         /\ UNCHANGED <<serverVars, keyLog>>
    ELSE IF ~Has(rooms, n)
    THEN /\ resp' = Reply("putRoomKey", 404, n)
         /\ UNCHANGED <<serverVars, keyLog>>
    ELSE /\ roomKeys' = MapSet(roomKeys, n, [encryptedKey |-> encryptedKey,
                                             timestamp |-> clock])
         /\ keyLog' = keyLog \cup {KeyWrite("putRoomKey", n, "", encryptedKey)}
         /\ resp' = [Reply("putRoomKey", 200, n) EXCEPT !.key = encryptedKey]
         /\ UNCHANGED <<rooms, messages, receipts, userPublicKeys, roomUsers,
                        e2eeMessages>>

PutRoomKey(roomId, encryptedKey) ==
    /\ variant = "server"
    /\ PutRoomKeyHandler(roomId, encryptedKey)
    /\ UNCHANGED <<serverBase, raceVars>>

(* server.js: GET /rooms/:roomId/key *)
GetRoomKey(roomId) ==
    /\ variant = "server"
    /\ LET n == normalizeRoomId(roomId) IN
       IF FalsySeq(n) THEN resp' = Reply("getRoomKey", 400, n)
       ELSE IF ~Has(roomKeys, n) THEN resp' = Reply("getRoomKey", 404, n)
       ELSE resp' = [Reply("getRoomKey", 200, n) EXCEPT !.key = roomKeys[n].encryptedKey]
    /\ UNCHANGED <<serverFrame, serverVars>>

(* server.js: POST /receipts *)
PostReceipt(messageId, recipientId, type, roomId) ==
    /\ variant = "server"
    /\ IF Falsy(messageId) \/ Falsy(recipientId) \/ Falsy(type) \/ FalsySeq(roomId)
       THEN /\ resp' = Reply("postReceipt", 400, <<>>)
            /\ UNCHANGED serverVars
       ELSE LET n == normalizeRoomId(roomId) IN
            IF ~Has(rooms, n)
            THEN /\ resp' = Reply("postReceipt", 404, n)
                 /\ UNCHANGED serverVars
            ELSE LET roomReceipts == MapGet(receipts, n, <<>>) IN
                 /\ Len(roomReceipts) < MaxReceipts
                 /\ receipts' = MapSet(receipts, n,
                        Append(roomReceipts, [messageId |-> messageId,
                                              recipientId |-> recipientId,
                                              type |-> type,
                                              timestamp |-> clock]))
                 /\ resp' = Reply("postReceipt", 200, n)
                 /\ UNCHANGED <<rooms, messages, roomKeys, userPublicKeys, roomUsers,
                                e2eeMessages>>
    /\ UNCHANGED serverFrame

(* server.js: GET /receipts/:roomId *)
GetReceipts(roomId) ==
    /\ variant = "server"
    /\ LET n == normalizeRoomId(roomId) IN
       IF FalsySeq(n) THEN resp' = Reply("getReceipts", 400, n)
       ELSE LET roomReceipts == MapGet(receipts, n, <<>>)
                oneDayAgo == clock - DayMs
                recentReceipts ==
                    SortByTimestamp(SelectSeq(roomReceipts,
                        LAMBDA receipt : receipt.timestamp > oneDayAgo))
            IN  resp' = [Reply("getReceipts", 200, n) EXCEPT !.msgs = recentReceipts]
    /\ UNCHANGED <<serverFrame, serverVars>>

PruneOlderOnly(store, sevenDaysAgo) ==
    [r \in DOMAIN store |->
        SelectSeq(store[r], LAMBDA receipt : receipt.timestamp >= sevenDaysAgo)]

(* server.js: POST /cleanup *)
PruneReceipts(store, sevenDaysAgo) ==
    [r \in DOMAIN store |->
        SelectSeq(store[r], LAMBDA receipt : receipt.timestamp > sevenDaysAgo)]

Cleanup ==
    /\ variant = "server"
    /\ cleanupExpiredMessages
    /\ LET sevenDaysAgo == clock - WeekMs
           pruned == PruneReceipts(receipts, sevenDaysAgo)
           cleanedReceipts == TotalLen(receipts, DOMAIN receipts)
                              - TotalLen(pruned, DOMAIN pruned)
       IN  /\ receipts' = pruned
           /\ resp' = [Reply("cleanup", 200, <<>>) EXCEPT
                          !.count = cleanedReceipts, !.cleaned = cleaned]
    /\ UNCHANGED <<serverFrame, rooms, roomKeys, userPublicKeys, roomUsers>>

(* server.js: the setInterval callback *)
PeriodicCleanup ==
    /\ variant = "server"
    /\ cleanupExpiredMessages
    /\ resp' = [NoResp EXCEPT !.cleaned = cleaned]
    /\ UNCHANGED <<serverFrame, rooms, roomKeys, receipts, userPublicKeys, roomUsers>>

-----------------------------------------------------------------------------
(* part_000: the minimal server.  Its stores are plain objects keyed by    *)
(* the room id exactly as the request gives it.                            *)

(* JavaScript's  x > now  for x undefined or a number *)
GreaterThan(o, now) == o # None /\ o[1] > now

MinSweep(list, now) == SelectSeq(list, LAMBDA m : GreaterThan(m.expirationTime, now))

(* part_000: POST /create-room *)
MinCreateRoom(roomId, hostId) ==
    /\ variant = "minimal"
    /\ IF FalsySeq(roomId) \/ Falsy(hostId)
       THEN /\ resp' = Reply("createRoom", 400, <<>>)
            /\ UNCHANGED minimalVars
       ELSE /\ mRooms' = MapSet(mRooms, roomId, [hostId |-> hostId,
                                                 members |-> <<hostId>>,
                                                 createdAt |-> clock])
            /\ mMessages' = MapSet(mMessages, roomId, <<>>)
            /\ resp' = Reply("createRoom", 200, roomId)
            /\ UNCHANGED <<pubkeys, roomkeys>>
    /\ UNCHANGED minimalFrame

(* part_000: GET /room/:roomId *)
MinGetRoom(roomId) ==
    /\ variant = "minimal"
    /\ resp' = [Reply("getRoom", 200, roomId) EXCEPT !.flag = Has(mRooms, roomId)]
    /\ UNCHANGED <<minimalFrame, minimalVars>>

(* part_000: POST /send *)
MinSend(roomId, message, senderId, expirationTime, rnd) ==
    /\ variant = "minimal"
    /\ IF FalsySeq(roomId) \/ Falsy(message) \/ Falsy(senderId)
       THEN /\ resp' = Reply("send", 400, <<>>)
            /\ UNCHANGED minimalVars
       ELSE LET msgObj == [id |-> <<clock, rnd>>,
                           roomId |-> roomId,
                           message |-> message,
                           senderId |-> senderId,
                           timestamp |-> clock,
                           expirationTime |-> expirationTime]
                list == MapGet(mMessages, roomId, <<>>)
            IN  /\ Len(list) < MaxMsgs
                /\ mMessages' = MapSet(mMessages, roomId, Append(list, msgObj))
                /\ resp' = [Reply("send", 200, roomId) EXCEPT
                               !.user = senderId, !.msgs = <<msgObj>>, !.count = 1]
                /\ UNCHANGED <<mRooms, pubkeys, roomkeys>>
    /\ UNCHANGED minimalFrame

(* part_000: GET /messages/:roomId *)
MinGetMessages(roomId) ==
    /\ variant = "minimal"
    /\ IF ~Has(mMessages, roomId)
       THEN /\ resp' = Reply("getMessages", 200, roomId)
            /\ UNCHANGED minimalVars
       ELSE LET now == clock
                kept == MinSweep(mMessages[roomId], now)
            IN  /\ mMessages' = MapSet(mMessages, roomId, kept)
                /\ resp' = [Reply("getMessages", 200, roomId) EXCEPT !.msgs = kept]
                /\ UNCHANGED <<mRooms, pubkeys, roomkeys>>
    /\ UNCHANGED minimalFrame

(* part_000: POST /receipts *)
MinPostReceipt ==
    /\ variant = "minimal"
    /\ resp' = Reply("postReceipt", 200, <<>>)
    /\ UNCHANGED <<minimalFrame, minimalVars>>

(* part_000: GET /receipts/:roomId *)
MinGetReceipts(roomId) ==
    /\ variant = "minimal"
    /\ resp' = Reply("getReceipts", 200, roomId)
    /\ UNCHANGED <<minimalFrame, minimalVars>>

(* part_000: POST /api/pubkeys/:roomId/:userId *)
MinPutPubKey(roomId, userId, pubKey) ==
    /\ variant = "minimal"
    /\ IF Falsy(pubKey)
       THEN /\ resp' = Reply("putPublicKey", 400, roomId)
            /\ UNCHANGED <<minimalVars, keyLog>>
       ELSE /\ pubkeys' = MapSet(pubkeys, roomId,
                                 MapSet(MapGet(pubkeys, roomId, <<>>), userId, pubKey))
            /\ keyLog' = keyLog \cup {KeyWrite("putPublicKey", roomId, userId, pubKey)}
            /\ resp' = [Reply("putPublicKey", 200, roomId) EXCEPT
                           !.user = userId, !.key = pubKey]
            /\ UNCHANGED <<mRooms, mMessages, roomkeys>>
    /\ UNCHANGED <<minimalBase, raceVars>>

(* part_000: GET /api/pubkeys/:roomId/:userId *)
MinGetPubKey(roomId, userId) ==
    /\ variant = "minimal"
    /\ LET key == MapGet(MapGet(pubkeys, roomId, <<>>), userId, "") IN
       IF Falsy(key)
       THEN resp' = [Reply("getPublicKey", 404, roomId) EXCEPT !.user = userId]
       ELSE resp' = [Reply("getPublicKey", 200, roomId) EXCEPT
                        !.user = userId, !.key = key]
    /\ UNCHANGED <<minimalFrame, minimalVars>>

(* part_000: POST /api/roomkeys/:roomId *)
MinPutRoomKeyHandler(roomId, encryptedKey) ==
    IF Falsy(encryptedKey)
    THEN /\ resp' = Reply("putRoomKey", 400, roomId)
         /\ UNCHANGED <<minimalVars, keyLog>>
    ELSE IF ~Falsy(MapGet(roomkeys, roomId, ""))
    THEN /\ resp' = Reply("putRoomKey", 409, roomId)
         /\ UNCHANGED <<minimalVars, keyLog>>
    ELSE /\ roomkeys' = MapSet(roomkeys, roomId, encryptedKey)
         /\ keyLog' = keyLog \cup {KeyWrite("putRoomKey", roomId, "", encryptedKey)}
         /\ resp' = [Reply("putRoomKey", 200, roomId) EXCEPT !.key = encryptedKey]
         /\ UNCHANGED <<mRooms, mMessages, pubkeys>>

MinPutRoomKey(roomId, encryptedKey) ==
    /\ variant = "minimal"
    /\ MinPutRoomKeyHandler(roomId, encryptedKey)
    /\ UNCHANGED <<minimalBase, raceVars>>

(* part_000: GET /api/roomkeys/:roomId *)
MinGetRoomKey(roomId) ==
    /\ variant = "minimal"
    /\ LET key == MapGet(roomkeys, roomId, "") IN
       IF Falsy(key) THEN resp' = Reply("getRoomKey", 404, roomId)
       ELSE resp' = [Reply("getRoomKey", 200, roomId) EXCEPT !.key = key]
    /\ UNCHANGED <<minimalFrame, minimalVars>>

(* part_000: the setInterval callback *)
MinPeriodicCleanup ==
    /\ variant = "minimal"
    /\ mMessages' = [r \in DOMAIN mMessages |-> MinSweep(mMessages[r], clock)]
    /\ resp' = NoResp
    /\ UNCHANGED <<minimalFrame, mRooms, pubkeys, roomkeys>>

-----------------------------------------------------------------------------
(* part_001: the serverless handlers.  A key of `global` is the string the *)
(* template literal builds: the prefix followed by the characters of the   *)
(* room id, a colon and the characters of the user id.                     *)

(* the characters of a user id *)
Chars(s) ==
    CASE s = "" -> <<>>
      [] s = "u1" -> <<"u", "1">>
      [] s = "u2" -> <<"u", "2">>
      [] s = "c" -> <<"c">>
      [] s = "b:c" -> <<"b", ":", "c">>

PubKeyName(roomId, userId) == <<"pubkey:">> \o roomId \o <<":">> \o Chars(userId)
RoomKeyName(roomId) == <<"roomkey:">> \o roomId

(* part_001: /api/pubkeys/[roomId]/[userId].js *)
FnPubKeys(method, roomId, userId, pubKey) ==
    /\ variant = "serverless"
    /\ LET key == PubKeyName(roomId, userId) IN
       IF method = "POST"
       THEN /\ globalObj' = MapSet(globalObj, key, pubKey)
            /\ keyLog' = keyLog \cup {KeyWrite("putPublicKey", roomId, userId, pubKey)}
            /\ resp' = [Reply("putPublicKey", 200, roomId) EXCEPT
                           !.user = userId, !.key = pubKey]
       ELSE IF method = "GET"
       THEN /\ resp' = IF Falsy(MapGet(globalObj, key, ""))
                       THEN [Reply("getPublicKey", 404, roomId) EXCEPT !.user = userId]
                       ELSE [Reply("getPublicKey", 200, roomId) EXCEPT
                                !.user = userId, !.key = globalObj[key]]
            /\ UNCHANGED <<globalObj, keyLog>>
       ELSE /\ resp' = Reply("pubkeys", 405, roomId)
            /\ UNCHANGED <<globalObj, keyLog>>
    /\ UNCHANGED <<serverlessBase, raceVars>>

(* part_001: /api/roomkeys/[roomId].js *)
FnRoomKeysHandler(method, roomId, encryptedKey) ==
    LET key == RoomKeyName(roomId) IN
    IF method = "POST"
    THEN IF ~Falsy(MapGet(globalObj, key, ""))
         THEN /\ resp' = Reply("putRoomKey", 409, roomId)
              /\ UNCHANGED <<globalObj, keyLog>>
         ELSE /\ globalObj' = MapSet(globalObj, key, encryptedKey)
              /\ keyLog' = keyLog \cup {KeyWrite("putRoomKey", roomId, "", encryptedKey)}
              /\ resp' = [Reply("putRoomKey", 200, roomId) EXCEPT !.key = encryptedKey]
    ELSE IF method = "GET"
    THEN /\ resp' = IF Falsy(MapGet(globalObj, key, ""))
                    THEN Reply("getRoomKey", 404, roomId)
                    ELSE [Reply("getRoomKey", 200, roomId) EXCEPT !.key = globalObj[key]]
         /\ UNCHANGED <<globalObj, keyLog>>
    ELSE /\ resp' = Reply("roomkeys", 405, roomId)
         /\ UNCHANGED <<globalObj, keyLog>>

FnRoomKeys(method, roomId, encryptedKey) ==
    /\ variant = "serverless"
    /\ FnRoomKeysHandler(method, roomId, encryptedKey)
    /\ UNCHANGED <<serverlessBase, raceVars>>

-----------------------------------------------------------------------------
(* Workloads.  Each specification runs every revision under the requests   *)
(* of one part of the interface.                                           *)

Methods == {"POST", "GET", "DELETE"}
KeyRoomIds == {<<"a">>, <<"A", " ">>}

(* the room registry and the two key stores *)
NextKeys ==
    \/ \E r \in KeyRoomIds \cup {<<>>}, h \in {"", "u1"}, e \in BOOLEAN : CreateRoom(r, h, e)
    \/ \E r \in KeyRoomIds \cup {<<>>}, u \in {"", "u2"} : JoinRoom(r, u)
    \/ \E r \in KeyRoomIds : GetRoom(r)
    \/ \E r \in KeyRoomIds, k \in KeyInputs : PutPublicKey(r, "u1", k)
    \/ \E r \in KeyRoomIds, u \in Users : GetPublicKey(r, u)
    \/ \E r \in KeyRoomIds : GetRoomUsers(r)
    \/ \E r \in KeyRoomIds, k \in KeyInputs : PutRoomKey(r, k)
    \/ \E r \in KeyRoomIds : GetRoomKey(r)
    \/ \E r \in KeyRoomIds \cup {<<>>}, h \in {"", "u1"} : MinCreateRoom(r, h)
    \/ \E r \in KeyRoomIds : MinGetRoom(r)
    \/ \E r \in KeyRoomIds, k \in KeyInputs : MinPutPubKey(r, "u1", k)
    \/ \E r \in KeyRoomIds, u \in Users : MinGetPubKey(r, u)
    \/ \E r \in KeyRoomIds, k \in KeyInputs : MinPutRoomKey(r, k)
    \/ \E r \in KeyRoomIds : MinGetRoomKey(r)
    \/ \E m \in Methods, r \in KeyRoomIds, k \in KeyInputs : FnPubKeys(m, r, "u1", k)
    \/ \E m \in Methods, r \in KeyRoomIds, k \in KeyInputs : FnRoomKeys(m, r, k)

SpecKeys == Init /\ [][NextKeys]_vars

(* the two message streams and their expiry; time passes *)
MsgRoomIds == {<<"a">>}
MsgTickSteps == {1, DayMs - 1}
MsgExpiryInputs(now) == {None, <<now - 1>>, <<now + 1>>}
MsgTimestampInputs(now) == {None, <<now - DayMs>>}

(* requests as <<roomId, message, senderId, timestamp, expirationTime>> *)
SendRequests(now) ==
    { <<r, "m1", "u1", None, x>> : r \in MsgRoomIds, x \in MsgExpiryInputs(now) }
    \cup { <<r, "m1", "u1", t, None>> : r \in MsgRoomIds, t \in MsgTimestampInputs(now) }
    \cup { <<<<"a">>, "m1", "u1", None, <<0>>>>,
           <<<<>>, "m1", "u1", None, None>>,
           <<<<"a">>, "", "u1", None, None>>,
           <<<<"a">>, "m1", "", None, None>> }

(* requests as <<roomId, senderId, encryptedMessages, expirationTime>> *)
SendE2EERequests(now) ==
    { <<r, "u1", <<em>>, x>> :
        r \in MsgRoomIds, em \in RecipientMaps, x \in MsgExpiryInputs(now) }
    \cup { <<<<"a">>, "u1", << << <<"u2", "blob1">> >> >>, <<0>>>>,
           <<<<>>, "u1", << << <<"u2", "blob1">> >> >>, None>>,
           <<<<"a">>, "", << << <<"u2", "blob1">> >> >>, None>>,
           <<<<"a">>, "u1", None, None>> }

(* rooms are created before the clock first advances; messages are sent *)
(* and read, and the timers fire, at every later instant                 *)
NextMessages ==
    \/ \E d \in MsgTickSteps : Tick(d)
    \/ \E r \in MsgRoomIds : ticks = 0 /\ CreateRoom(r, "u1", FALSE)
    \/ \E q \in SendRequests(clock), rnd \in RandomSuffixes :
          Send(q[1], q[2], q[3], q[4], q[5], rnd)
    \/ \E r \in MsgRoomIds : GetMessages(r)
    \/ \E q \in SendE2EERequests(clock), rnd \in RandomSuffixes :
          SendE2EE(q[1], q[2], q[3], q[4], rnd)
    \/ \E r \in MsgRoomIds, u \in Users : GetE2EEMessages(r, u)
    \/ PeriodicCleanup
    \/ \E r \in MsgRoomIds : ticks = 0 /\ MinCreateRoom(r, "u1")
    \/ \E q \in SendRequests(clock), rnd \in RandomSuffixes :
          MinSend(q[1], q[2], q[3], q[5], rnd)
    \/ \E r \in MsgRoomIds : MinGetMessages(r)
    \/ MinPeriodicCleanup

InitMessages == Init /\ variant # "serverless"

SpecMessages == InitMessages /\ [][NextMessages]_vars

(***************************************************************************)
(* Views of the stores, one per revision, that the properties read         *)
(***************************************************************************)
(* the room keys a GET of the room key would return, by stored room id *)
StoredRoomKeys ==
    CASE variant = "server" ->
            [r \in DOMAIN roomKeys |-> roomKeys[r].encryptedKey]
      [] variant = "minimal" -> roomkeys
      [] OTHER ->
            [r \in {q \in KeyRoomIds : Has(globalObj, RoomKeyName(q))} |->
                globalObj[RoomKeyName(r)]]

(***************************************************************************)
(* C1: room-key write is first-writer-wins.  Once a room has a stored key, *)
(* no step changes it, and no later putRoomKey on that room is answered    *)
(* with success: the stored room key, once set, never changes.             *)
(***************************************************************************)
RoomKeyFirstWriterWins ==
    [][\A r \in DOMAIN StoredRoomKeys :
          ~Falsy(StoredRoomKeys[r]) =>
              /\ r \in DOMAIN StoredRoomKeys'
              /\ StoredRoomKeys'[r] = StoredRoomKeys[r]
              /\ (resp'.op = "putRoomKey" /\ resp'.room = r) => resp'.status # 200]_vars

Range(seq) == {seq[i] : i \in DOMAIN seq}

(* the rooms that have a message stream, and a room's stored messages of   *)
(* both streams                                                            *)
StreamRooms == DOMAIN messages \cup DOMAIN e2eeMessages \cup DOMAIN mMessages

StoredStream(R) ==
    CASE variant = "server" -> MapGet(messages, R, <<>>) \o MapGet(e2eeMessages, R, <<>>)
      [] variant = "minimal" -> MapGet(mMessages, R, <<>>)
      [] OTHER -> <<>>

(* a stored record's expirationTime, absent (None) or <<instant>> *)
ExpiryOf(M) ==
    IF variant = "minimal" THEN M.expirationTime
    ELSE IF M.expirationTime = 0 THEN None ELSE <<M.expirationTime>>

(* the step is a successful read of a room's broadcast or directed stream *)
ReadStep == resp'.op \in {"getMessages", "getE2EEMessages"} /\ resp'.status = 200

(***************************************************************************)
(* C2: a read of room R at an instant later than the expirationTime of a   *)
(* message M stored in R does not return M, and after the sweep the read   *)
(* triggers M is no longer in R's stored stream (broadcast or directed).   *)
(***************************************************************************)
ExpiredAbsentFromRead ==
    [][ReadStep =>
         \A R \in StreamRooms : resp'.room = R =>
            \A M \in Range(StoredStream(R)) :
                (ExpiryOf(M) # None /\ clock > ExpiryOf(M)[1]) =>
                    /\ M \notin Range(resp'.msgs)
                    /\ M \notin Range(StoredStream(R)')]_vars

(* a read swept an expired message out of the store and returned another   *)
(* one that had not expired                                                *)
ExpiredAbsentFromReadWitness ==
    /\ variant = "server"
    /\ resp.op \in {"getMessages", "getE2EEMessages"}
    /\ resp.status = 200
    /\ resp.cleaned >= 1
    /\ Len(resp.msgs) >= 1

(* M has expired at instant now: its expirationTime is at or before now *)
ExpiredAt(M, now) == ExpiryOf(M) # None /\ ExpiryOf(M)[1] <= now

(* the records of a stream a read addressed to `user` is about: all of     *)
(* them for the broadcast stream, the recipient's for the directed one     *)
AddressedTo(M, op, user) ==
    IF op = "getE2EEMessages"
    THEN "recipientId" \in DOMAIN M /\ M.recipientId = user
    ELSE "recipientId" \notin DOMAIN M

(***************************************************************************)
(* C3: reads are non-destructive.  A read of a room returns exactly the    *)
(* stored messages of the stream that have not expired (so two consecutive *)
(* reads with no send and no expiry in between return the same set), and   *)
(* it removes nothing from any room's store except expired messages.       *)
(***************************************************************************)
ReadsNonDestructive ==
    [][ReadStep =>
         \A R \in StreamRooms :
            \A M \in Range(StoredStream(R)) :
                ~ExpiredAt(M, clock) =>
                    /\ M \in Range(StoredStream(R)')
                    /\ (resp'.room = R /\ AddressedTo(M, resp'.op, resp'.user))
                           => M \in Range(resp'.msgs)]_vars

(***************************************************************************)
(* C4: a directed send into an existing room with a map of N recipients    *)
(* appends exactly N records, in the map's order, one per recipient with   *)
(* that recipient's payload, all sharing one messageId and one timestamp;  *)
(* a directed read for user X returns only records whose recipientId is X. *)
(***************************************************************************)
DirectedFanOut ==
    [][/\ (resp'.op = "sendE2EE" /\ resp'.status = 200) =>
            LET map == resp'.req
                old == MapGet(e2eeMessages, resp'.room, <<>>)
                new == e2eeMessages'[resp'.room]
            IN  /\ Len(new) = Len(old) + Len(map)
                /\ SubSeq(new, 1, Len(old)) = old
                /\ \A i \in 1..Len(map) :
                      /\ new[Len(old) + i].recipientId = map[i][1]
                      /\ new[Len(old) + i].encryptedData = map[i][2]
                      /\ new[Len(old) + i].messageId = new[Len(old) + 1].messageId
                      /\ new[Len(old) + i].timestamp = new[Len(old) + 1].timestamp
       /\ (resp'.op = "getE2EEMessages" /\ resp'.status = 200) =>
              \A rec \in Range(resp'.msgs) : rec.recipientId = resp'.user]_vars

(* two records of one directed send are stored for u1 and u2, and u2's     *)
(* directed read returned exactly the one addressed to u2                  *)
DirectedFanOutWitness ==
    /\ resp.op = "getE2EEMessages"
    /\ resp.status = 200
    /\ resp.user = "u2"
    /\ Len(resp.msgs) = 1
    /\ resp.msgs[1].recipientId = "u2"
    /\ \E R \in DOMAIN e2eeMessages :
          /\ Len(e2eeMessages[R]) = 2
          /\ e2eeMessages[R][1].recipientId = "u1"
          /\ e2eeMessages[R][2].recipientId = "u2"
          /\ e2eeMessages[R][1].messageId = e2eeMessages[R][2].messageId
          /\ e2eeMessages[R][1].timestamp = e2eeMessages[R][2].timestamp

(* the rooms that were created *)
CreatedRooms ==
    CASE variant = "server" -> DOMAIN rooms
      [] variant = "minimal" -> DOMAIN mRooms
      [] OTHER -> {}

(***************************************************************************)
(* C5: a broadcast or directed send that carries its required fields and   *)
(* addresses a room that was never created is answered 404 and leaves      *)
(* every store as it was: no message collection appears for that room.     *)
(***************************************************************************)
SendToAbsentRoomRejected ==
    [][(/\ resp'.op \in {"send", "sendE2EE"}
        /\ resp'.status # 400
        /\ resp'.room \notin CreatedRooms) =>
            /\ resp'.status = 404
            /\ UNCHANGED <<serverVars, minimalVars, globalObj>>]_vars

(* the public key a GET for (room, user) finds stored, "" when none; and   *)
(* the (room, user) pairs the key workload addresses                       *)
StoredPublicKey(r, u) ==
    CASE variant = "server" ->
            IF Has(MapGet(userPublicKeys, r, <<>>), u)
            THEN userPublicKeys[r][u].publicKey ELSE ""
      [] variant = "minimal" -> MapGet(MapGet(pubkeys, r, <<>>), u, "")
      [] OTHER -> MapGet(globalObj, PubKeyName(r, u), "")

KeyPairs == (KeyRoomIds \cup {normalizeRoomId(q) : q \in KeyRoomIds}) \X Users

(***************************************************************************)
(* C6: public-key write is last-writer-wins, in every revision.  A         *)
(* successful putPublicKey on (room, user) leaves its payload stored for   *)
(* the pair; the stored key of a pair changes only by a successful         *)
(* putPublicKey on that pair; getPublicKey answers the stored key whenever *)
(* one is stored; and no putPublicKey is ever answered 409.  Hence         *)
(* getPublicKey returns the payload of the most recent successful write.   *)
(***************************************************************************)
PublicKeyLastWriterWins ==
    [][\A p \in KeyPairs :
       /\ (resp'.op = "putPublicKey" /\ resp'.status = 200
               /\ resp'.room = p[1] /\ resp'.user = p[2])
             => StoredPublicKey(p[1], p[2])' = resp'.key
       /\ StoredPublicKey(p[1], p[2])' # StoredPublicKey(p[1], p[2])
             => (resp'.op = "putPublicKey" /\ resp'.status = 200
                   /\ resp'.room = p[1] /\ resp'.user = p[2])
       /\ (resp'.op = "getPublicKey" /\ resp'.status # 400
               /\ resp'.room = p[1] /\ resp'.user = p[2])
             => IF Falsy(StoredPublicKey(p[1], p[2]))
                THEN resp'.status = 404
                ELSE resp'.status = 200 /\ resp'.key = StoredPublicKey(p[1], p[2])
       /\ resp'.op = "putPublicKey" => resp'.status # 409]_vars

(* K1 and K2 were both written with success for one (room, user) pair, K2  *)
(* is the stored key and getPublicKey on the pair returned K2              *)
PublicKeyLastWriterWinsWitness ==
    /\ resp.op = "getPublicKey"
    /\ resp.status = 200
    /\ resp.key = "K2"
    /\ KeyWrite("putPublicKey", resp.room, resp.user, "K1") \in keyLog
    /\ KeyWrite("putPublicKey", resp.room, resp.user, "K2") \in keyLog
    /\ StoredPublicKey(resp.room, resp.user) = "K2"

(* the room identifiers under which the revision in use holds anything *)
StoreRoomIds ==
    CASE variant = "server" ->
            DOMAIN rooms \cup DOMAIN messages \cup DOMAIN roomKeys \cup DOMAIN receipts
                \cup DOMAIN userPublicKeys \cup DOMAIN roomUsers \cup DOMAIN e2eeMessages
      [] variant = "minimal" ->
            DOMAIN mRooms \cup DOMAIN mMessages \cup DOMAIN pubkeys \cup DOMAIN roomkeys
      [] OTHER ->
            {q \in KeyRoomIds :
                \/ Has(globalObj, RoomKeyName(q))
                \/ \E u \in Users : Has(globalObj, PubKeyName(q, u))}

(***************************************************************************)
(* C7: every room-scoped operation normalizes the room identifier          *)
(* (uppercase, trim) before touching any store: every identifier a store   *)
(* is keyed by, and the identifier the latest request addressed its stores *)
(* with, is in normal form, so identifiers that differ only in case or     *)
(* surrounding whitespace address the same room.                           *)
(***************************************************************************)
RoomIdsNormalized ==
    /\ \A r \in StoreRoomIds : normalizeRoomId(r) = r
    /\ normalizeRoomId(resp.room) = resp.room


(***************************************************************************)
(* C9: a message sent without an explicit expiry is stored with            *)
(* expirationTime = timestamp + 24h, by the broadcast and by the directed  *)
(* send; and a directed record with that expiry is returned by its         *)
(* recipient's directed list at every instant before 24h have elapsed and  *)
(* at no instant from 24h on.                                              *)
(***************************************************************************)
DefaultExpiryIsOneDay ==
    [][/\ \A q \in SendRequests(clock), rnd \in RandomSuffixes :
            (/\ q[5] = None
             /\ \/ Send(q[1], q[2], q[3], q[4], q[5], rnd)
                \/ MinSend(q[1], q[2], q[3], q[5], rnd)
             /\ resp'.status = 200) =>
                ExpiryOf(resp'.msgs[1]) = <<resp'.msgs[1].timestamp + DayMs>>
       /\ \A q \in SendE2EERequests(clock), rnd \in RandomSuffixes :
            (/\ q[4] = None
             /\ SendE2EE(q[1], q[2], q[3], q[4], rnd)
             /\ resp'.status = 200) =>
                \A rec \in Range(resp'.msgs) :
                    ExpiryOf(rec) = <<rec.timestamp + DayMs>>
       /\ (resp'.op = "getE2EEMessages" /\ resp'.status = 200) =>
              \A M \in Range(MapGet(e2eeMessages, resp'.room, <<>>)) :
                  (M.recipientId = resp'.user
                      /\ M.expirationTime = M.timestamp + DayMs) =>
                          (M \in Range(resp'.msgs) <=> clock < M.timestamp + DayMs)]_vars

-----------------------------------------------------------------------------
(* The receipt workload: receipts are posted, listed and pruned while the  *)
(* clock steps across the 24-hour and the 7-day boundary                   *)
RcpTickSteps == {1, DayMs, WeekMs - 1, WeekMs}

NextReceipts ==
    \/ \E d \in RcpTickSteps : Tick(d)
    \/ CreateRoom(<<"a">>, "u1", FALSE)
    \/ \E t \in ReceiptTypes : PostReceipt("m1", "u2", t, <<"a">>)
    \/ GetReceipts(<<"a">>)
    \/ Cleanup
    \/ MinPostReceipt
    \/ MinGetReceipts(<<"a">>)

SpecReceipts == InitMessages /\ [][NextReceipts]_vars

(* the receipts of a list that are at least `age` old at instant now *)
AtLeast(list, now, age) == SelectSeq(list, LAMBDA rec : now - rec.timestamp >= age)
OlderThan(list, now, age) == SelectSeq(list, LAMBDA rec : now - rec.timestamp > age)
Younger(list, now, age) == SelectSeq(list, LAMBDA rec : now - rec.timestamp < age)

(* what every step does to the receipt log, but for which receipts the     *)
(* prune deletes: the list answers the receipts younger than 24 hours and  *)
(* leaves the log alone, and only the maintenance prune deletes receipts   *)
ReceiptsKeptUntilPrune ==
    /\ (resp'.op = "getReceipts" /\ resp'.status = 200) =>
          /\ \A rec \in Range(resp'.msgs) : clock - rec.timestamp < DayMs
          /\ Range(resp'.msgs) = Range(Younger(MapGet(receipts, resp'.room, <<>>), clock, DayMs))
          /\ receipts' = receipts
    /\ resp'.op # "cleanup" =>
          \A R \in DOMAIN receipts :
              /\ R \in DOMAIN receipts'
              /\ Len(receipts'[R]) >= Len(receipts[R])
              /\ SubSeq(receipts'[R], 1, Len(receipts[R])) = receipts[R]

-----------------------------------------------------------------------------
(* Concurrent room-key writes.  Two clients each send one putRoomKey; the  *)
(* requests are in flight together and the runtime runs their handlers in  *)
(* either order.  A handler is synchronous, so it runs to completion       *)
(* before the next one starts.                                             *)
Clients == {"c1", "c2"}

(* a client's request arrives and waits for the event loop *)
Receive(c, roomId, encryptedKey) ==
    /\ c \notin DOMAIN pending
    /\ c \notin DOMAIN replies
    /\ pending' = MapSet(pending, c, [roomId |-> roomId, encryptedKey |-> encryptedKey])
    /\ resp' = NoResp
    /\ UNCHANGED <<variant, clock, ticks, serverVars, minimalVars, globalObj, replies,
                   keyLog>>

(* the event loop runs the handler of a waiting request *)
Handle(c) ==
    /\ c \in DOMAIN pending
    /\ \/ /\ variant = "server"
          /\ PutRoomKeyHandler(pending[c].roomId, pending[c].encryptedKey)
          /\ UNCHANGED serverBase
       \/ /\ variant = "minimal"
          /\ MinPutRoomKeyHandler(pending[c].roomId, pending[c].encryptedKey)
          /\ UNCHANGED minimalBase
       \/ /\ variant = "serverless"
          /\ FnRoomKeysHandler("POST", pending[c].roomId, pending[c].encryptedKey)
          /\ UNCHANGED serverlessBase
    /\ replies' = MapSet(replies, c, [status |-> resp'.status,
                                      room |-> resp'.room,
                                      key |-> pending[c].encryptedKey])
    /\ pending' = [d \in DOMAIN pending \ {c} |-> pending[d]]

NextRace ==
    \/ CreateRoom(<<"a">>, "u1", FALSE)
    \/ MinCreateRoom(<<"a">>, "u1")
    \/ \E c \in Clients, r \in KeyRoomIds, k \in {"K1", "K2"} : Receive(c, r, k)
    \/ \E c \in Clients : Handle(c)
    \/ GetRoomKey(<<"a">>)
    \/ MinGetRoomKey(<<"a">>)
    \/ FnRoomKeys("GET", <<"a">>, "")

SpecRace == Init /\ [][NextRace]_vars

(***************************************************************************)
(* C10: two putRoomKey requests for the same existing room that are in     *)
(* flight together never both succeed, whatever order their handlers run   *)
(* in: exactly one is answered 200, its payload is the stored key, and the *)
(* other is answered 409.                                                  *)
(***************************************************************************)
ConcurrentPutRoomKeyOneWinner ==
    \A c \in DOMAIN replies, d \in DOMAIN replies :
        (/\ c # d
         /\ replies[c].room = replies[d].room
         /\ replies[c].status \in {200, 409}
         /\ replies[d].status \in {200, 409}) =>
            /\ ~(replies[c].status = 200 /\ replies[d].status = 200)
            /\ replies[c].status = 200 =>
                  /\ replies[d].status = 409
                  /\ StoredRoomKeys[replies[c].room] = replies[c].key

-----------------------------------------------------------------------------
(***************************************************************************)
(* C11: the broadcast and the directed send of server.js store the         *)
(* caller's expiry only when it is supplied and lies in the future at send *)
(* time, and now + 24h otherwise; hence every record they store has        *)
(* expirationTime strictly greater than the send instant.                  *)
(***************************************************************************)
ExpiryPolicyFutureOrDefault ==
    [][LET PolicyExpiry(x, now) == IF x # None /\ x[1] > now THEN x[1] ELSE now + DayMs
       IN  /\ (resp'.op = "send" /\ resp'.status = 200) =>
                 \A q \in SendRequests(clock), rnd \in RandomSuffixes :
                     Send(q[1], q[2], q[3], q[4], q[5], rnd) =>
                         /\ resp'.msgs[1].expirationTime = PolicyExpiry(q[5], clock)
                         /\ resp'.msgs[1].expirationTime > clock
           /\ (resp'.op = "sendE2EE" /\ resp'.status = 200) =>
                 \A q \in SendE2EERequests(clock), rnd \in RandomSuffixes :
                     SendE2EE(q[1], q[2], q[3], q[4], rnd) =>
                         \A rec \in Range(resp'.msgs) :
                             /\ rec.expirationTime = PolicyExpiry(q[4], clock)
                             /\ rec.expirationTime > clock]_vars

(***************************************************************************)
(* C12: a directed send into an existing room with an empty recipient map  *)
(* is answered 400, stores no record, and is not answered with success and *)
(* recipientCount 0.                                                       *)
(***************************************************************************)
EmptyRecipientMapRejected ==
    [][resp'.op = "sendE2EE" =>
          \A q \in SendE2EERequests(clock), rnd \in RandomSuffixes :
              (/\ q[3] = << <<>> >>
               /\ ~Falsy(q[2])
               /\ normalizeRoomId(q[1]) \in DOMAIN rooms
               /\ SendE2EE(q[1], q[2], q[3], q[4], rnd)) =>
                  /\ resp'.status = 400
                  /\ ~(resp'.status = 200 /\ resp'.count = 0)
                  /\ e2eeMessages' = e2eeMessages]_vars

-----------------------------------------------------------------------------
(* The ordering workload: broadcast sends carry their own timestamps, at,  *)
(* before or after the server's clock, so that arrival order and timestamp *)
(* order differ; directed sends and the sends of part_000 are stamped by   *)
(* the server                                                              *)
OrderTimestampInputs(now) == {None, <<now - 2>>, <<now + 2>>}

NextOrder ==
    \/ Tick(1)
    \/ CreateRoom(<<"a">>, "u1", FALSE)
    \/ \E t \in OrderTimestampInputs(clock), rnd \in RandomSuffixes :
          Send(<<"a">>, "m1", "u1", t, None, rnd)
    \/ GetMessages(<<"a">>)
    \/ \E em \in RecipientMaps \ {<<>>}, rnd \in RandomSuffixes :
          SendE2EE(<<"a">>, "u1", <<em>>, None, rnd)
    \/ \E u \in Users : GetE2EEMessages(<<"a">>, u)
    \/ \E rnd \in RandomSuffixes : MinSend(<<"a">>, "m1", "u1", <<clock + DayMs>>, rnd)
    \/ MinGetMessages(<<"a">>)

SpecOrder == InitMessages /\ [][NextOrder]_vars

IsSortedByTimestamp(seq) ==
    \A i \in 1..(Len(seq) - 1) : seq[i].timestamp <= seq[i + 1].timestamp

(***************************************************************************)
(* C13: every sequence a broadcast or a directed read returns is sorted by *)
(* ascending timestamp, whatever the order the messages arrived in.        *)
(***************************************************************************)
ReadsSortedByTimestamp ==
    (resp.op \in {"getMessages", "getE2EEMessages"} /\ resp.status = 200)
        => IsSortedByTimestamp(resp.msgs)

(* a broadcast read returned two messages in ascending timestamp order     *)
(* while the store holds them in arrival order, the later timestamp first  *)
ReadsSortedByTimestampWitness ==
    /\ resp.op = "getMessages"
    /\ resp.status = 200
    /\ Len(resp.msgs) = 2
    /\ resp.msgs[1].timestamp < resp.msgs[2].timestamp
    /\ \E R \in DOMAIN messages :
          /\ Len(messages[R]) = 2
          /\ messages[R][1].timestamp > messages[R][2].timestamp
          /\ resp.msgs = <<messages[R][2], messages[R][1]>>

(***************************************************************************)
(* C14: in every reachable state, every room identifier that has a stored  *)
(* public key, room key, receipt or message is a registered room; a        *)
(* putPublicKey or putRoomKey addressed to a room that does not exist is   *)
(* answered 404 and stores nothing.                                        *)
(***************************************************************************)
StoresOnlyForRegisteredRooms ==
    /\ StoreRoomIds \subseteq CreatedRooms
    /\ (resp.op \in {"putPublicKey", "putRoomKey"} /\ resp.room \notin CreatedRooms)
            => resp.status \in {400, 404}

-----------------------------------------------------------------------------
(* The membership workload: two rooms, created and re-created by either    *)
(* user, joined and published to by either user                            *)
MemberRoomIds == {<<"a">>, <<"b">>}

NextMembers ==
    \/ \E r \in MemberRoomIds, h \in Users : CreateRoom(r, h, FALSE)
    \/ \E r \in MemberRoomIds, u \in Users \cup {""} : JoinRoom(r, u)
    \/ \E r \in MemberRoomIds, u \in Users, k \in {"K1", "K2"} : PutPublicKey(r, u, k)
    \/ \E r \in MemberRoomIds : GetRoomUsers(r)
    \/ \E r \in MemberRoomIds, h \in Users : MinCreateRoom(r, h)
    \/ \E r \in MemberRoomIds : MinGetRoom(r)

SpecMembers == InitMessages /\ [][NextMembers]_vars

(* the members of the room stored under identifier r *)
Members(r) ==
    CASE variant = "server" -> MapGet(roomUsers, r, {})
      [] variant = "minimal" -> IF Has(mRooms, r) THEN Range(mRooms[r].members) ELSE {}
      [] OTHER -> {}

(***************************************************************************)
(* C15: room membership only grows.  No step, re-creating the room with a  *)
(* different host included, removes a member from a room; a joinRoom on an *)
(* existing room leaves the user a member and changes nothing when the     *)
(* user already is one; a joinRoom on an absent room is answered 404.      *)
(***************************************************************************)
MembershipOnlyGrows ==
    [][/\ \A r \in StoreRoomIds : Members(r) \subseteq Members(r)'
       /\ resp'.op = "joinRoom" =>
            \A r \in MemberRoomIds, u \in Users :
                JoinRoom(r, u) =>
                    IF normalizeRoomId(r) \in CreatedRooms
                    THEN /\ resp'.status = 200
                         /\ u \in Members(normalizeRoomId(r))'
                         /\ u \in Members(normalizeRoomId(r)) => roomUsers' = roomUsers
                    ELSE /\ resp'.status = 404
                         /\ roomUsers' = roomUsers]_vars

(***************************************************************************)
(* C16: a room's e2eeEnabled flag is set when the room is first created    *)
(* and never changes afterwards: no step on an existing room, another      *)
(* create-room call with a different flag included, changes the stored     *)
(* flag, which is the value GET /room reports.                             *)
(***************************************************************************)
E2eeFlagImmutable ==
    [][/\ \A r \in DOMAIN rooms :
            /\ r \in DOMAIN rooms'
            /\ rooms'[r].e2eeEnabled = rooms[r].e2eeEnabled
       /\ (resp'.op = "getRoom" /\ resp'.status = 200)
            => \A r \in DOMAIN rooms : resp'.room = r => resp'.flag = rooms[r].e2eeEnabled]_vars

(* C16 as the code has it: the stored flag of an existing room changes     *)
(* only by a successful create-room call on that room, which stores the    *)
(* flag of its request; every other step leaves it alone, and GET /room    *)
(* reports the stored flag.                                                *)
E2eeFlagSetByCreateRoomOnly ==
    [][/\ \A r \in DOMAIN rooms :
            /\ r \in DOMAIN rooms'
            /\ (resp'.op = "createRoom" /\ resp'.status = 200 /\ resp'.room = r)
                    => rooms'[r].e2eeEnabled = resp'.flag
            /\ ~(resp'.op = "createRoom" /\ resp'.status = 200 /\ resp'.room = r)
                    => rooms'[r].e2eeEnabled = rooms[r].e2eeEnabled
       /\ (resp'.op = "getRoom" /\ resp'.status = 200)
            => \A r \in DOMAIN rooms : resp'.room = r => resp'.flag = rooms[r].e2eeEnabled]_vars

(* a create-room call on an existing room replaced its flag by a different *)
(* one                                                                     *)
E2eeFlagSetByCreateRoomOnlyWitness ==
    /\ resp.op = "createRoom"
    /\ resp.status = 200
    /\ resp.prev # None
    /\ resp.prev[1] # resp.flag
    /\ resp.room \in DOMAIN rooms
    /\ rooms[resp.room].e2eeEnabled = resp.flag

(***************************************************************************)
(* C17: a create-room call on a room that already exists succeeds and      *)
(* changes only the room's metadata, plus adding the new host to the       *)
(* members: the room's broadcast messages, directed messages, receipts,    *)
(* public keys, room key and previous members are left as they were.       *)
(***************************************************************************)
RecreateChangesOnlyMetadata ==
    [][(resp'.op = "createRoom" /\ resp'.status = 200) =>
         \A r \in CreatedRooms :
            resp'.room = r =>
                /\ <<messages, e2eeMessages, receipts, userPublicKeys, roomKeys>>'
                        = <<messages, e2eeMessages, receipts, userPublicKeys, roomKeys>>
                /\ <<mMessages, pubkeys, roomkeys>>' = <<mMessages, pubkeys, roomkeys>>
                /\ Members(r) \subseteq Members(r)']_vars

(***************************************************************************)
(* C18: a stored message is deleted only by the expiration sweep and is    *)
(* never updated.  Across every step (send, read, create-room, cleanup,    *)
(* clock), a message whose expirationTime is still in the future remains   *)
(* in its room's stream with all its fields unchanged.                     *)
(***************************************************************************)
UnexpiredMessagesRemain ==
    [][\A R \in StreamRooms :
         \A M \in Range(StoredStream(R)) :
            (ExpiryOf(M) # None /\ ExpiryOf(M)[1] > clock')
                => M \in Range(StoredStream(R))']_vars

(***************************************************************************)
(* C19: the expiry sweep run at instant now removes, from every room's     *)
(* broadcast and directed stream, exactly the messages whose               *)
(* expirationTime is at or before now (a message with expirationTime = now *)
(* is removed, one with expirationTime > now or with none is kept), and    *)
(* running the sweep again at the same instant changes nothing.            *)
(***************************************************************************)
SweepRemovesExactlyExpired ==
    [][(PeriodicCleanup \/ MinPeriodicCleanup) =>
         /\ \A R \in StreamRooms :
                Range(StoredStream(R))'
                    = {M \in Range(StoredStream(R)) : ~ExpiredAt(M, clock)}
         /\ SweepAll(messages', clock) = messages'
         /\ SweepAll(e2eeMessages', clock) = e2eeMessages'
         /\ \A r \in DOMAIN mMessages' : MinSweep(mMessages'[r], clock) = mMessages'[r]]_vars

(***************************************************************************)
(* C20: a stored message that has no expirationTime is never removed by a  *)
(* sweep, read-triggered or periodic, and is returned by every read of its *)
(* room's stream.                                                          *)
(***************************************************************************)
NoExpiryNeverSwept ==
    [][\A R \in StreamRooms :
         \A M \in Range(StoredStream(R)) :
            ExpiryOf(M) = None =>
                /\ (ReadStep \/ PeriodicCleanup \/ MinPeriodicCleanup)
                        => M \in Range(StoredStream(R))'
                /\ (ReadStep /\ resp'.room = R /\ AddressedTo(M, resp'.op, resp'.user))
                        => M \in Range(resp'.msgs)]_vars

-----------------------------------------------------------------------------
(* The abandoned-room workload: messages are sent and the clock advances,  *)
(* but nobody reads; only the interval timers sweep.  setInterval fires    *)
(* the callback again and again, which is weak fairness of the timer step. *)
SweepTickSteps == {1, DayMs}

SweepExpiryInputs(now) == {None, <<now + 1>>}

NextSweep ==
    \/ \E d \in SweepTickSteps : Tick(d)
    \/ ticks = 0 /\ CreateRoom(<<"a">>, "u1", FALSE)
    \/ \E x \in SweepExpiryInputs(clock), rnd \in RandomSuffixes :
          Send(<<"a">>, "m1", "u1", None, x, rnd)
    \/ \E x \in SweepExpiryInputs(clock), rnd \in RandomSuffixes :
          SendE2EE(<<"a">>, "u1", << << <<"u2", "blob1">> >> >>, x, rnd)
    \/ PeriodicCleanup
    \/ \E rnd \in RandomSuffixes : MinSend(<<"a">>, "m1", "u1", <<clock + 1>>, rnd)
    \/ MinPeriodicCleanup

SpecSweepFair ==
    /\ InitMessages
    /\ [][NextSweep]_vars
    /\ WF_vars(PeriodicCleanup)
    /\ WF_vars(MinPeriodicCleanup)

(* some room's broadcast or directed stream holds a message whose          *)
(* expirationTime has passed                                               *)
ExpiredStored ==
    \E R \in StreamRooms : \E M \in Range(StoredStream(R)) : ExpiredAt(M, clock)

(***************************************************************************)
(* C21: under fairness of the periodic timer, every stored message that    *)
(* has an expirationTime is eventually removed from the store once that    *)
(* instant has passed, in every room and in both streams, even when no     *)
(* request ever reads the room: whenever expired messages are stored, a    *)
(* later state stores none of them (the clock never goes back, so a        *)
(* message that has expired stays expired).                                *)
(***************************************************************************)
ExpiredEventuallyRemoved == ExpiredStored ~> ~ExpiredStored

(* the timer of server.js has just removed expired messages from a room    *)
(* nobody read, and no expired message is left                             *)
ExpiredEventuallyRemovedWitness ==
    /\ variant = "server"
    /\ resp.op = "none"
    /\ resp.cleaned >= 1
    /\ clock > StartTime
    /\ ~ExpiredStored

(***************************************************************************)
(* C22: the expiry sweep is triggered on every write: immediately after a  *)
(* successful broadcast or directed send into a room, that room's stored   *)
(* stream holds none of the messages it held before whose expirationTime   *)
(* is at or before the send instant.                                       *)
(***************************************************************************)
SendSweepsExpired ==
    [][(resp'.op \in {"send", "sendE2EE"} /\ resp'.status = 200) =>
         \A R \in StreamRooms :
            resp'.room = R =>
                \A M \in Range(StoredStream(R)) :
                    ExpiredAt(M, clock) => M \notin Range(StoredStream(R))']_vars

(***************************************************************************)
(* C23: a request that lacks a required field (create-room without roomId  *)
(* or hostId; join without userId; send without message, senderId or       *)
(* recipient map; put key without key payload; receipt without messageId,  *)
(* recipientId, type or roomId) is answered 400 and touches no store,      *)
(* whether or not the addressed room exists.                               *)
(***************************************************************************)
MissingFieldRejected ==
    [][LET Rejected == /\ resp'.status = 400
                       /\ <<serverVars, minimalVars, globalObj>>'
                            = <<serverVars, minimalVars, globalObj>>
       IN
       /\ resp'.op = "createRoom" =>
            \A r \in KeyRoomIds \cup {<<>>}, h \in {"", "u1"}, e \in BOOLEAN :
                ((FalsySeq(r) \/ Falsy(h)) /\ (CreateRoom(r, h, e) \/ MinCreateRoom(r, h)))
                    => Rejected
       /\ resp'.op = "joinRoom" =>
            \A r \in KeyRoomIds \cup {<<>>}, u \in {"", "u2"} :
                ((FalsySeq(r) \/ Falsy(u)) /\ JoinRoom(r, u)) => Rejected
       /\ resp'.op \in {"putPublicKey", "putRoomKey"} =>
            \A r \in KeyRoomIds :
                (\/ PutPublicKey(r, "u1", "")
                 \/ MinPutPubKey(r, "u1", "")
                 \/ FnPubKeys("POST", r, "u1", "")
                 \/ PutRoomKey(r, "")
                 \/ MinPutRoomKey(r, "")
                 \/ FnRoomKeys("POST", r, "")) => Rejected
       /\ resp'.op = "send" =>
            \A q \in SendRequests(clock), rnd \in RandomSuffixes :
                ((FalsySeq(q[1]) \/ Falsy(q[2]) \/ Falsy(q[3]))
                    /\ (Send(q[1], q[2], q[3], q[4], q[5], rnd)
                        \/ MinSend(q[1], q[2], q[3], q[5], rnd))) => Rejected
       /\ resp'.op = "sendE2EE" =>
            \A q \in SendE2EERequests(clock), rnd \in RandomSuffixes :
                ((FalsySeq(q[1]) \/ Falsy(q[2]) \/ q[3] = None)
                    /\ SendE2EE(q[1], q[2], q[3], q[4], rnd)) => Rejected
       /\ resp'.op = "postReceipt" =>
            \A t \in ReceiptTypes :
                ((Falsy(t) /\ PostReceipt("m1", "u2", t, <<"a">>))
                    \/ (variant = "minimal" /\ Falsy(t) /\ MinPostReceipt)) => Rejected]_vars

-----------------------------------------------------------------------------
(* The two-room workload.  Every request addressed to a room carries that  *)
(* room's own user and key payload, so a record shows which room it was    *)
(* written to.  Room ids and user ids may contain a colon.                 *)
IsoRoomIds == {<<"a">>, <<"a", ":", "b">>}

IsoUsers == {"b:c", "c"}

IsoUser(r) == IF normalizeRoomId(r) = <<"A">> THEN "b:c" ELSE "c"

IsoKey(r) == IF normalizeRoomId(r) = <<"A">> THEN "K1" ELSE "K2"

NextIso ==
    \/ \E r \in IsoRoomIds : CreateRoom(r, IsoUser(r), FALSE)
    \/ \E r \in IsoRoomIds : JoinRoom(r, IsoUser(r))
    \/ \E r \in IsoRoomIds, rnd \in RandomSuffixes :
          Send(r, "m1", IsoUser(r), None, None, rnd)
    \/ \E r \in IsoRoomIds, rnd \in RandomSuffixes :
          SendE2EE(r, IsoUser(r), << << <<IsoUser(r), "blob1">> >> >>, None, rnd)
    \/ \E r \in IsoRoomIds : PutPublicKey(r, IsoUser(r), IsoKey(r))
    \/ \E r \in IsoRoomIds : PutRoomKey(r, IsoKey(r))
    \/ \E r \in IsoRoomIds : PostReceipt("m1", IsoUser(r), "read", r)
    \/ \E r \in IsoRoomIds : GetMessages(r)
    \/ \E r \in IsoRoomIds, u \in IsoUsers : GetE2EEMessages(r, u)
    \/ \E r \in IsoRoomIds : GetReceipts(r)
    \/ \E r \in IsoRoomIds, u \in IsoUsers : GetPublicKey(r, u)
    \/ \E r \in IsoRoomIds : GetRoomKey(r)
    \/ \E r \in IsoRoomIds : GetRoomUsers(r)
    \/ \E r \in IsoRoomIds : MinCreateRoom(r, IsoUser(r))
    \/ \E r \in IsoRoomIds, rnd \in RandomSuffixes :
          MinSend(r, "m1", IsoUser(r), <<clock + DayMs>>, rnd)
    \/ \E r \in IsoRoomIds : MinGetMessages(r)
    \/ \E r \in IsoRoomIds : MinPutPubKey(r, IsoUser(r), IsoKey(r))
    \/ \E r \in IsoRoomIds, u \in IsoUsers : MinGetPubKey(r, u)
    \/ \E r \in IsoRoomIds : MinPutRoomKey(r, IsoKey(r))
    \/ \E r \in IsoRoomIds : MinGetRoomKey(r)
    \/ \E r \in IsoRoomIds : FnPubKeys("POST", r, IsoUser(r), IsoKey(r))
    \/ \E r \in IsoRoomIds, u \in IsoUsers : FnPubKeys("GET", r, u, "")
    \/ \E m \in {"POST", "GET"}, r \in IsoRoomIds : FnRoomKeys(m, r, IsoKey(r))

SpecIso == Init /\ [][NextIso]_vars

(* what the stores hold under room identifier x: Map.get / obj[x] of each  *)
(* store, absent as <<>>                                                   *)
Opt(m, k) == IF Has(m, k) THEN <<m[k]>> ELSE <<>>

RoomView(x) ==
    CASE variant = "server" ->
            <<Opt(roomUsers, x), Opt(messages, x), Opt(e2eeMessages, x),
              Opt(receipts, x), Opt(userPublicKeys, x), Opt(roomKeys, x)>>
      [] variant = "minimal" ->
            <<Opt(mRooms, x), Opt(mMessages, x), Opt(pubkeys, x), Opt(roomkeys, x)>>
      [] OTHER ->
            <<[u \in IsoUsers |-> Opt(globalObj, PubKeyName(x, u))],
              Opt(globalObj, RoomKeyName(x))>>

IsoStoreIds == IsoRoomIds \cup {normalizeRoomId(r) : r \in IsoRoomIds}

(***************************************************************************)
(* C24: no entity crosses room boundaries.  For distinct rooms R and Q, a  *)
(* request addressed to R (join, send, key write, receipt append, read)    *)
(* leaves the members, messages, keys and receipts of Q unchanged, and a   *)
(* read of R returns only records that were written to R.                  *)
(***************************************************************************)
RoomsIsolated ==
    [][\A R \in IsoStoreIds, Q \in IsoStoreIds :
         (R # Q /\ resp'.room = R /\ resp'.op # "createRoom") =>
            /\ RoomView(Q)' = RoomView(Q)
            /\ resp'.status = 200 =>
                /\ resp'.op \in {"getMessages", "getE2EEMessages"} =>
                        \A M \in Range(resp'.msgs) : M.senderId = IsoUser(R)
                /\ resp'.op = "getReceipts" =>
                        \A M \in Range(resp'.msgs) : M.recipientId = IsoUser(R)
                /\ resp'.op \in {"getPublicKey", "getRoomKey"} => resp'.key = IsoKey(R)
                /\ resp'.op = "getRoomUsers" =>
                        \A p \in resp'.members :
                            p[1] = IsoUser(R) /\ p[2] \in {"", IsoKey(R)}]_vars

(***************************************************************************)
(* C25: GET /rooms/:roomId/users on an existing room returns exactly one   *)
(* entry per current member, with the public key stored for that user (the *)
(* most recently published one) or the empty string when none is stored;   *)
(* the user of a successful create-room, join-room or publickey request is *)
(* a member afterwards, and members are never removed.                     *)
(***************************************************************************)
ListMembersExact ==
    [][(variant = "server") =>
         \A r \in DOMAIN rooms' :
            /\ (resp'.op = "getRoomUsers" /\ resp'.status = 200 /\ resp'.room = r) =>
                    /\ resp'.members = {<<u, StoredPublicKey(r, u)>> : u \in Members(r)}
                    /\ resp'.count = Cardinality(Members(r))
            /\ (resp'.op \in {"joinRoom", "putPublicKey"} /\ resp'.status = 200
                    /\ resp'.room = r) => resp'.user \in Members(r)'
            /\ (resp'.op = "putPublicKey" /\ resp'.status = 200 /\ resp'.room = r) =>
                    \A u \in Users : resp'.user = u => StoredPublicKey(r, u)' = resp'.key
            /\ resp'.op = "createRoom" =>
                    \A q \in MemberRoomIds, h \in Users :
                        (CreateRoom(q, h, FALSE) /\ normalizeRoomId(q) = r)
                            => h \in Members(r)'
            /\ Members(r) \subseteq Members(r)']_vars

(* the list has one member whose key was published twice and is listed     *)
(* with a stored key, and one member without a key, listed with ""         *)
ListMembersExactWitness ==
    /\ resp.op = "getRoomUsers"
    /\ resp.status = 200
    /\ resp.count = 2
    /\ \E u \in Users, v \in Users :
          /\ u # v
          /\ <<v, "">> \in resp.members
          /\ <<u, "K2">> \in resp.members
          /\ KeyWrite("putPublicKey", resp.room, u, "K1") \in keyLog
          /\ KeyWrite("putPublicKey", resp.room, u, "K2") \in keyLog

(***************************************************************************)
(* C26: a broadcast send that carries a caller-supplied timestamp t and no *)
(* explicit expiry stores timestamp = t and expirationTime = t + 24h;      *)
(* every broadcast message stored without explicit expiry has              *)
(* expirationTime = timestamp + 24h; and a message sent with t at least    *)
(* 24h in the past is accepted but is returned by no read.                 *)
(***************************************************************************)
CallerTimestampExpiry ==
    [][/\ (resp'.op = "send" /\ resp'.status = 200) =>
            \A q \in SendRequests(clock), rnd \in RandomSuffixes :
                (/\ FalsyNum(q[5])
                 /\ \/ Send(q[1], q[2], q[3], q[4], q[5], rnd)
                    \/ MinSend(q[1], q[2], q[3], q[5], rnd)) =>
                    /\ ExpiryOf(resp'.msgs[1]) = <<resp'.msgs[1].timestamp + DayMs>>
                    /\ q[4] # None => resp'.msgs[1].timestamp = q[4][1]
       /\ (resp'.op = "getMessages" /\ resp'.status = 200) =>
            \A M \in Range(resp'.msgs) :
                ExpiryOf(M) = <<M.timestamp + DayMs>> => M.timestamp + DayMs > clock]_vars

====
